---- MODULE Spec2Model ----
(***************************************************************************)
(* Two-nearest-neighbours query of fluent_data.                            *)
(*                                                                         *)
(* neighborhood.rs: GetNeighborhood::get_neighborhood, a reduction over an *)
(* iterator of models (fold_0, fold_1, fold_others_2, smallest).           *)
(* neighbors.rs: GetNeighbors::get_neighbors, the crate-private twin of    *)
(* the same reduction over an iterator of point references.                *)
(*                                                                         *)
(* A run of the model is one call of get_neighborhood over an iterable,    *)
(* followed by one call of get_neighbors over a fresh iterator on the same *)
(* iterable with the same query point and distance function.               *)
(***************************************************************************)
EXTENDS Integers, Naturals, Sequences, FiniteSets, TLC

\* Longest candidate iterable explored.
MaxLen == 4

\* Largest finite distance explored (distances are 0..MaxDist, or NaN).
MaxDist == 3

\* The f64 value NaN: every ordered comparison with it is false.
NaN == -1

\* The f64 values the distance function returns in the model.
F64 == (0..MaxDist) \cup {NaN}

VARIABLES
    distq,      \* distq[i]: the value dist(&point, &p) for the i-th item p of the iterable
    pc,         \* position of the get_neighborhood call
    pos,        \* items the underlying iterator has yielded to the map adapter
    exhausted,  \* the underlying iterator has returned None
    ncalls,     \* calls of the dist closure made by the map adapter
    pulled,     \* the items (positions in the iterable) pulled, in pull order
    first,      \* local `first` of fold_1 / fold_others_2
    second,     \* local `second` of fold_others_2
    acc,        \* accumulator (d1, d2) of others.fold in fold_others_2
    result,     \* value returned by get_neighborhood
    nb_pc,      \* position of the get_neighbors call
    nb_pos,     \* items the iterator of the get_neighbors call has yielded
    nb_first,   \* local `first` of neighbors.rs fold_1 / fold_others_2
    nb_second,  \* local `second` of neighbors.rs fold_others_2
    nb_acc,     \* accumulator (d1, d2) of others.fold in neighbors.rs
    nb_result,  \* value returned by get_neighbors
    sm_args,    \* arguments (d1, d2, d3) of a direct call of smallest
    sm_ret,     \* value returned by that call
    order,      \* order[i]: which model of the candidate set is the i-th item iterated
    prev        \* value returned by an earlier call over the same set, by model

vars == <<distq, pc, pos, exhausted, ncalls, pulled, first, second, acc, result,
          nb_pc, nb_pos, nb_first, nb_second, nb_acc, nb_result, sm_args, sm_ret,
          order, prev>>

nhVars == <<pc, pos, exhausted, ncalls, pulled, first, second, acc, result>>
nbVars == <<nb_pc, nb_pos, nb_first, nb_second, nb_acc, nb_result>>
smVars == <<sm_args, sm_ret>>
pmVars == <<order, prev>>

----------------------------------------------------------------------------
(* f64 comparisons *)

\* x > y on f64: false as soon as one side is NaN.
gt(x, y) == x # NaN /\ y # NaN /\ x > y

\* x <= y on f64: false as soon as one side is NaN.
le(x, y) == x # NaN /\ y # NaN /\ x <= y

----------------------------------------------------------------------------
(* neighborhood.rs *)

\* NeighborDist(RefModel, f64): field 0 is the reference (the item of the
\* iterable, identified by its position), field 1 the distance.
NeighborDist(p, d) == [coord |-> p, dist |-> d]

\* A local that holds no value yet.
Unset == [coord |-> 0, dist |-> 0]

\* enum Neighborhood
Two(n1, n2) == [tag |-> "Two", n1 |-> n1, n2 |-> n2]
One(n1) == [tag |-> "One", n1 |-> n1, n2 |-> Unset]
None == [tag |-> "None", n1 |-> Unset, n2 |-> Unset]
Pending == [tag |-> "Pending", n1 |-> Unset, n2 |-> Unset]

\* The distance function applied to the query point and the i-th item.
dist(i) == distq[i]

\* The closure of self.map in get_neighborhood, applied to the i-th item.
map_closure(i) == NeighborDist(i, dist(i))

\* std::mem::swap on the pair of locals (x, y).
swap(x, y) == <<y, x>>

\* smallest with its swaps exchanging only the distances, the references
\* staying in place.
smallest_swap_dist(d1, d2, d3) ==
    LET sw(x, y) == <<[x EXCEPT !.dist = y.dist], [y EXCEPT !.dist = x.dist]>>
        a == IF gt(d1.dist, d2.dist) THEN sw(d1, d2) ELSE <<d1, d2>>
        b == IF gt(a[2].dist, d3.dist) THEN sw(a[2], d3) ELSE <<a[2], d3>>
        c == IF gt(a[1].dist, b[1].dist) THEN sw(a[1], b[1]) ELSE <<a[1], b[1]>>
    IN  <<c[1], c[2]>>

\* smallest with plain assignments in place of the last two swaps.
smallest_assign(d1, d2, d3) ==
    LET a == IF gt(d1.dist, d2.dist) THEN swap(d1, d2) ELSE <<d1, d2>>
        b2 == IF gt(a[2].dist, d3.dist) THEN d3 ELSE a[2]
        c1 == IF gt(a[1].dist, b2.dist) THEN b2 ELSE a[1]
    IN  <<c1, b2>>

\* smallest with >= in its second comparison: a later candidate wins a tie.
smallest_ge(d1, d2, d3) ==
    LET ge(x, y) == x # NaN /\ y # NaN /\ x >= y
        a == IF gt(d1.dist, d2.dist) THEN swap(d1, d2) ELSE <<d1, d2>>
        b == IF ge(a[2].dist, d3.dist) THEN swap(a[2], d3) ELSE <<a[2], d3>>
        c == IF gt(a[1].dist, b[1].dist) THEN swap(a[1], b[1]) ELSE <<a[1], b[1]>>
    IN  <<c[1], c[2]>>

\* smallest without its first comparison: it assumes d1 <= d2 on entry.
smallest_presorted(d1, d2, d3) ==
    LET b == IF gt(d2.dist, d3.dist) THEN swap(d2, d3) ELSE <<d2, d3>>
        c == IF gt(d1.dist, b[1].dist) THEN swap(d1, b[1]) ELSE <<d1, b[1]>>
    IN  <<c[1], c[2]>>

\* smallest without its second comparison: d3 never enters the pair.
smallest_no_d3(d1, d2, d3) ==
    IF gt(d1.dist, d2.dist) THEN swap(d1, d2) ELSE <<d1, d2>>

\* smallest without its third comparison: the pair is returned unordered.
smallest_no_third(d1, d2, d3) ==
    LET a == IF gt(d1.dist, d2.dist) THEN swap(d1, d2) ELSE <<d1, d2>>
        b == IF gt(a[2].dist, d3.dist) THEN swap(a[2], d3) ELSE <<a[2], d3>>
    IN  <<a[1], b[1]>>

\* smallest(d1, d2, d3): three compare-and-swap steps, the pair (d1, d2) returned.
smallest(d1, d2, d3) ==
    LET a == IF gt(d1.dist, d2.dist) THEN swap(d1, d2) ELSE <<d1, d2>>
        b == IF gt(a[2].dist, d3.dist) THEN swap(a[2], d3) ELSE <<a[2], d3>>
        c == IF gt(a[1].dist, b[1].dist) THEN swap(a[1], b[1]) ELSE <<a[1], b[1]>>
    IN  <<c[1], c[2]>>

\* The map closure evaluating dist twice for one item.
PullSome_twice ==
    /\ pos' = pos + 1
    /\ ncalls' = ncalls + 2
    /\ pulled' = Append(pulled, pos + 1)
    /\ UNCHANGED exhausted

\* next() of the map adapter yields Some: the underlying iterator yields its
\* next item and the closure calls dist on it, once.
PullSome ==
    /\ pos' = pos + 1
    /\ ncalls' = ncalls + 1
    /\ pulled' = Append(pulled, pos + 1)
    /\ UNCHANGED exhausted

\* next() of the map adapter yields None: the underlying iterator is at its end.
PullNone ==
    /\ exhausted' = TRUE
    /\ UNCHANGED <<pos, ncalls, pulled>>

\* get_neighborhood: builds the (lazy) map adapter and enters fold_0.
get_neighborhood ==
    /\ pc = "call"
    /\ pc' = "fold_0"
    /\ UNCHANGED <<distq, pos, exhausted, ncalls, pulled, first, second, acc, result>>
    /\ UNCHANGED nbVars /\ UNCHANGED smVars /\ UNCHANGED pmVars

\* fold_0: iter.next(); Some(d1) enters fold_1, None returns Neighborhood::None.
fold_0 ==
    /\ pc = "fold_0"
    /\ IF pos < Len(distq)
       THEN /\ PullSome
            /\ first' = map_closure(pos + 1)
            /\ pc' = "fold_1"
            /\ UNCHANGED result
       ELSE /\ PullNone
            /\ result' = None
            /\ pc' = "done"
            /\ UNCHANGED first
    /\ UNCHANGED <<distq, second, acc>>
    /\ UNCHANGED nbVars /\ UNCHANGED smVars /\ UNCHANGED pmVars

\* fold_1 returning Neighborhood::None when there is no second item.
fold_1_none ==
    /\ pc = "fold_1"
    /\ IF pos < Len(distq)
       THEN /\ PullSome
            /\ second' = map_closure(pos + 1)
            /\ pc' = "fold_others_2"
            /\ UNCHANGED result
       ELSE /\ PullNone
            /\ result' = None
            /\ pc' = "done"
            /\ UNCHANGED second
    /\ UNCHANGED <<distq, first, acc>>
    /\ UNCHANGED nbVars /\ UNCHANGED smVars /\ UNCHANGED pmVars

\* fold_1: others.next(); Some(d2) enters fold_others_2, None returns One(first).
fold_1 ==
    /\ pc = "fold_1"
    /\ IF pos < Len(distq)
       THEN /\ PullSome
            /\ second' = map_closure(pos + 1)
            /\ pc' = "fold_others_2"
            /\ UNCHANGED result
       ELSE /\ PullNone
            /\ result' = One(first)
            /\ pc' = "done"
            /\ UNCHANGED second
    /\ UNCHANGED <<distq, first, acc>>
    /\ UNCHANGED nbVars /\ UNCHANGED smVars /\ UNCHANGED pmVars

\* fold_others_2 entered without ordering its first two items.
fold_others_2_noswap ==
    /\ pc = "fold_others_2"
    /\ acc' = <<first, second>>
    /\ pc' = "fold"
    /\ UNCHANGED <<distq, pos, exhausted, ncalls, pulled, first, second, result>>
    /\ UNCHANGED nbVars /\ UNCHANGED smVars /\ UNCHANGED pmVars

\* fold_others_2, entry: orders (first, second), which seeds the fold.
fold_others_2 ==
    /\ pc = "fold_others_2"
    /\ acc' = IF gt(first.dist, second.dist) THEN swap(first, second)
                                             ELSE <<first, second>>
    /\ pc' = "fold"
    /\ UNCHANGED <<distq, pos, exhausted, ncalls, pulled, first, second, result>>
    /\ UNCHANGED nbVars /\ UNCHANGED smVars /\ UNCHANGED pmVars

\* others.fold, one iteration: the closure |(d1, d2), d| smallest(d1, d2, d).
fold_step ==
    /\ pc = "fold"
    /\ pos < Len(distq)
    /\ PullSome
    /\ acc' = smallest(acc[1], acc[2], map_closure(pos + 1))
    /\ UNCHANGED <<distq, pc, first, second, result>>
    /\ UNCHANGED nbVars /\ UNCHANGED smVars /\ UNCHANGED pmVars

\* others.fold at the end of the iterator: fold_others_2 returns Two(d1, d2).
fold_return ==
    /\ pc = "fold"
    /\ pos >= Len(distq)
    /\ PullNone
    /\ result' = Two(acc[1], acc[2])
    /\ pc' = "done"
    /\ UNCHANGED <<distq, first, second, acc>>
    /\ UNCHANGED nbVars /\ UNCHANGED smVars /\ UNCHANGED pmVars

----------------------------------------------------------------------------
(* neighbors.rs *)

\* PointDist(&Point, f64): field 0 is the reference, field 1 the distance.
PointDist(p, d) == [coord |-> p, dist |-> d]

\* Option<PointDist>
Some(x) == [some |-> TRUE, val |-> x]
NoneOpt == [some |-> FALSE, val |-> Unset]

\* struct Neighborhood(Option<PointDist>, Option<PointDist>)
Neighborhood(o1, o2) == <<o1, o2>>

\* The closure of self.map in get_neighbors, applied to the i-th item.
nb_map_closure(i) == PointDist(i, dist(i))

\* neighbors.rs smallest with >= in its second comparison.
nb_smallest_ge(d1, d2, d3) ==
    LET ge(x, y) == x # NaN /\ y # NaN /\ x >= y
        a == IF gt(d1.dist, d2.dist) THEN swap(d1, d2) ELSE <<d1, d2>>
        b == IF ge(a[2].dist, d3.dist) THEN swap(a[2], d3) ELSE <<a[2], d3>>
        c == IF gt(a[1].dist, b[1].dist) THEN swap(a[1], b[1]) ELSE <<a[1], b[1]>>
    IN  <<c[1], c[2]>>

\* neighbors.rs smallest(d1, d2, d3).
nb_smallest(d1, d2, d3) ==
    LET a == IF gt(d1.dist, d2.dist) THEN swap(d1, d2) ELSE <<d1, d2>>
        b == IF gt(a[2].dist, d3.dist) THEN swap(a[2], d3) ELSE <<a[2], d3>>
        c == IF gt(a[1].dist, b[1].dist) THEN swap(a[1], b[1]) ELSE <<a[1], b[1]>>
    IN  <<c[1], c[2]>>

\* get_neighbors: builds the map adapter over a fresh iterator, enters fold_0.
get_neighbors ==
    /\ pc = "done"
    /\ nb_pc = "call"
    /\ nb_pc' = "fold_0"
    /\ UNCHANGED <<distq, nb_pos, nb_first, nb_second, nb_acc, nb_result>>
    /\ UNCHANGED nhVars /\ UNCHANGED smVars /\ UNCHANGED pmVars

\* neighbors.rs fold_0.
nb_fold_0 ==
    /\ nb_pc = "fold_0"
    /\ IF nb_pos < Len(distq)
       THEN /\ nb_pos' = nb_pos + 1
            /\ nb_first' = nb_map_closure(nb_pos + 1)
            /\ nb_pc' = "fold_1"
            /\ UNCHANGED nb_result
       ELSE /\ nb_result' = Neighborhood(NoneOpt, NoneOpt)
            /\ nb_pc' = "done"
            /\ UNCHANGED <<nb_pos, nb_first>>
    /\ UNCHANGED <<distq, nb_second, nb_acc>>
    /\ UNCHANGED nhVars /\ UNCHANGED smVars /\ UNCHANGED pmVars

\* neighbors.rs fold_1.
nb_fold_1 ==
    /\ nb_pc = "fold_1"
    /\ IF nb_pos < Len(distq)
       THEN /\ nb_pos' = nb_pos + 1
            /\ nb_second' = nb_map_closure(nb_pos + 1)
            /\ nb_pc' = "fold_others_2"
            /\ UNCHANGED nb_result
       ELSE /\ nb_result' = Neighborhood(Some(nb_first), NoneOpt)
            /\ nb_pc' = "done"
            /\ UNCHANGED <<nb_pos, nb_second>>
    /\ UNCHANGED <<distq, nb_first, nb_acc>>
    /\ UNCHANGED nhVars /\ UNCHANGED smVars /\ UNCHANGED pmVars

\* neighbors.rs fold_others_2, entry: orders (first, second).
nb_fold_others_2 ==
    /\ nb_pc = "fold_others_2"
    /\ nb_acc' = IF gt(nb_first.dist, nb_second.dist) THEN swap(nb_first, nb_second)
                                                      ELSE <<nb_first, nb_second>>
    /\ nb_pc' = "fold"
    /\ UNCHANGED <<distq, nb_pos, nb_first, nb_second, nb_result>>
    /\ UNCHANGED nhVars /\ UNCHANGED smVars /\ UNCHANGED pmVars

\* neighbors.rs others.fold, one iteration.
nb_fold_step ==
    /\ nb_pc = "fold"
    /\ nb_pos < Len(distq)
    /\ nb_pos' = nb_pos + 1
    /\ nb_acc' = nb_smallest(nb_acc[1], nb_acc[2], nb_map_closure(nb_pos + 1))
    /\ UNCHANGED <<distq, nb_pc, nb_first, nb_second, nb_result>>
    /\ UNCHANGED nhVars /\ UNCHANGED smVars /\ UNCHANGED pmVars

\* neighbors.rs others.fold at the end of the iterator.
nb_fold_return ==
    /\ nb_pc = "fold"
    /\ nb_pos >= Len(distq)
    /\ nb_result' = Neighborhood(Some(nb_acc[1]), Some(nb_acc[2]))
    /\ nb_pc' = "done"
    /\ UNCHANGED <<distq, nb_pos, nb_first, nb_second, nb_acc>>
    /\ UNCHANGED nhVars /\ UNCHANGED smVars /\ UNCHANGED pmVars

----------------------------------------------------------------------------
(* The calls of get_neighborhood then get_neighbors over one iterable *)

\* The candidate iterables: every sequence of at most MaxLen distances.
Iterables == UNION {[1..n -> F64] : n \in 0..MaxLen}

NhIdle ==
    /\ pos = 0 /\ exhausted = FALSE /\ ncalls = 0 /\ pulled = <<>>
    /\ first = Unset /\ second = Unset /\ acc = <<Unset, Unset>>
    /\ result = Pending

NbIdle ==
    /\ nb_pos = 0 /\ nb_first = Unset /\ nb_second = Unset
    /\ nb_acc = <<Unset, Unset>>
    /\ nb_result = Neighborhood(NoneOpt, NoneOpt)

Init ==
    /\ distq \in Iterables
    /\ pc = "call" /\ NhIdle
    /\ nb_pc = "call" /\ NbIdle
    /\ sm_args = <<Unset, Unset, Unset>> /\ sm_ret = <<Unset, Unset>>
    /\ order = [i \in 1..Len(distq) |-> i] /\ prev = Pending

Next ==
    \/ get_neighborhood
    \/ fold_0
    \/ fold_1
    \/ fold_others_2
    \/ fold_step
    \/ fold_return
    \/ get_neighbors
    \/ nb_fold_0
    \/ nb_fold_1
    \/ nb_fold_others_2
    \/ nb_fold_step
    \/ nb_fold_return

Spec == Init /\ [][Next]_vars

\* The calls are synchronous, single-threaded code: a call that can take a
\* step takes it.
FairSpec == Spec /\ WF_vars(Next)

----------------------------------------------------------------------------
(* A direct call of smallest on three arbitrary NeighborDist values, as in *)
(* test_smallest                                                           *)

\* The references the arguments of the direct call may hold.
SmRefs == 1..3

SmInit ==
    /\ sm_args \in [1..3 -> [coord : SmRefs, dist : F64]]
    /\ sm_ret = <<Unset, Unset>>
    /\ distq = <<>>
    /\ pc = "idle" /\ NhIdle
    /\ nb_pc = "idle" /\ NbIdle
    /\ order = <<>> /\ prev = Pending

\* let s = smallest(d1, d2, d3);
call_smallest ==
    /\ sm_ret = <<Unset, Unset>>
    /\ sm_ret' = smallest(sm_args[1], sm_args[2], sm_args[3])
    /\ UNCHANGED <<distq, sm_args>>
    /\ UNCHANGED nhVars /\ UNCHANGED nbVars /\ UNCHANGED pmVars

SmNext == call_smallest

SmallestSpec == SmInit /\ [][SmNext]_vars

----------------------------------------------------------------------------
(* Properties *)

\* Number of candidates of the iterable.
n == Len(distq)

\* No candidate among the first k has a NaN distance.
NoNaN(k) == \A i \in 1..k : dist(i) # NaN

Returned == pc = "done"

\* C1: get_neighborhood returns None iff the iterable has 0 candidates, One
\* iff it has 1, Two iff it has 2 or more, whatever the distances (NaN
\* included).
C1_VariantBySize ==
    Returned =>
        /\ (result.tag = "None" <=> n = 0)
        /\ (result.tag = "One" <=> n = 1)
        /\ (result.tag = "Two" <=> n >= 2)

\* C1 witness: a Two result over exactly two candidates, one at distance NaN;
\* a One result and a None result are the other reachable final states.
C1_Witness ==
    /\ Returned /\ n = 2 /\ ~NoNaN(n) /\ result.tag = "Two"

\* C2: over distances without NaN, when Two(a, b) is returned every candidate
\* other than a and b is at least as far from the query point as b.
C2_OthersNotNearer ==
    (Returned /\ result.tag = "Two" /\ NoNaN(n)) =>
        \A c \in (1..n) \ {result.n1.coord, result.n2.coord} :
            dist(c) >= dist(result.n2.coord)

\* C2 witness: four candidates, the two nearest being the last and the first
\* (the shape of test_neighbors).
C2_Witness ==
    /\ Returned /\ n = 4 /\ NoNaN(n)
    /\ dist(4) < dist(1) /\ dist(1) < dist(2) /\ dist(1) < dist(3)
    /\ result.n1.coord = 4 /\ result.n2.coord = 1

\* C3 as stated: whenever Two(a, b) is returned, dist(q, a) <= dist(q, b)
\* (the f64 comparison).
C3_Original ==
    (Returned /\ result.tag = "Two") => le(result.n1.dist, result.n2.dist)

\* C3 amended: whenever Two(a, b) is returned and neither distance is NaN,
\* dist(q, a) <= dist(q, b).
C3_OrderedUnlessNaN ==
    (Returned /\ result.tag = "Two"
        /\ result.n1.dist # NaN /\ result.n2.dist # NaN) =>
        result.n1.dist <= result.n2.dist

\* C3 witness: exactly two candidates given in descending order of distance.
C3_Witness ==
    /\ Returned /\ n = 2 /\ NoNaN(n) /\ dist(1) > dist(2)
    /\ result.tag = "Two" /\ result.n1.coord = 2

\* Candidate i comes before candidate j in a stable sort by distance.
Before(i, j) == dist(i) < dist(j) \/ (dist(i) = dist(j) /\ i < j)

\* The k-th candidate (from 1) of the stable sort by distance.
StableNth(k) ==
    CHOOSE i \in 1..n : Cardinality({j \in 1..n : Before(j, i)}) = k - 1

\* The first two candidates of the stable sort, as a Neighborhood.
StableFirstTwo ==
    IF n = 0 THEN None
    ELSE IF n = 1 THEN One(NeighborDist(1, dist(1)))
    ELSE Two(NeighborDist(StableNth(1), dist(StableNth(1))),
             NeighborDist(StableNth(2), dist(StableNth(2))))

\* C4: over distances without NaN, the result is exactly the first two
\* candidates of the iterable sorted by distance with a stable sort (among
\* equal distances the candidate met first wins and comes first).
C4_StableFirstTwo ==
    (Returned /\ NoNaN(n)) => result = StableFirstTwo

\* C4 witness: the third candidate ties with the first, both behind the
\* second; the first is kept.
C4_Witness ==
    /\ Returned /\ n >= 3 /\ NoNaN(n)
    /\ dist(2) < dist(1) /\ dist(3) = dist(1)
    /\ result.tag = "Two" /\ result.n1.coord = 2 /\ result.n2.coord = 1

SmCalled == sm_ret # <<Unset, Unset>>

\* C5: for three pairwise distinct (non-NaN) distances, in any of their 6
\* orders, smallest returns the two arguments of smallest distance, the
\* nearer first.
C5_SmallestTwoAscending ==
    (/\ SmCalled
     /\ \A i \in 1..3 : sm_args[i].dist # NaN
     /\ \A i, j \in 1..3 : i # j => sm_args[i].dist # sm_args[j].dist) =>
        \E i, j, k \in 1..3 :
            /\ {i, j, k} = 1..3
            /\ sm_ret = <<sm_args[i], sm_args[j]>>
            /\ sm_args[i].dist < sm_args[j].dist
            /\ sm_args[j].dist < sm_args[k].dist

\* C5 witness: smallest has returned on arguments in strictly descending
\* order (d1 > d2 > d3, the first case of test_smallest).
C5_Witness ==
    /\ SmCalled
    /\ NaN \notin {sm_args[1].dist, sm_args[2].dist, sm_args[3].dist}
    /\ sm_args[1].dist > sm_args[2].dist /\ sm_args[2].dist > sm_args[3].dist
    /\ sm_ret = <<sm_args[3], sm_args[2]>>

\* C6: in every Two(a, b) result, a and b are two different items of the
\* iterable.
C6_DistinctCandidates ==
    (Returned /\ result.tag = "Two") =>
        /\ result.n1.coord \in 1..n
        /\ result.n2.coord \in 1..n
        /\ result.n1.coord # result.n2.coord

\* C6 witness: a Two result whose two neighbours are at the same distance,
\* the later one having displaced a farther first candidate.
C6_Witness ==
    /\ Returned /\ n >= 3 /\ NoNaN(n)
    /\ dist(1) > dist(2) /\ dist(2) = dist(3)
    /\ result.tag = "Two" /\ result.n1.dist = result.n2.dist

\* The neighbours a result holds.
NeighboursOf(r) ==
    IF r.tag = "Two" THEN {r.n1, r.n2}
    ELSE IF r.tag = "One" THEN {r.n1}
    ELSE {}

\* C7: every neighbour returned (in One, in both slots of Two) is an item of
\* the iterable and carries the value of dist(query point, that item).
C7_DistanceOfOwnCandidate ==
    Returned =>
        \A nd \in NeighboursOf(result) :
            /\ nd.coord \in 1..n
            /\ nd.dist = dist(nd.coord)

\* C7 witness: a Two result reached through swaps (the last candidate is the
\* nearest and the first two came in descending order).
C7_Witness ==
    /\ Returned /\ n >= 3 /\ NoNaN(n)
    /\ dist(1) > dist(2) /\ dist(2) > dist(n)
    /\ result.tag = "Two" /\ result.n1.coord = n

\* pair holds the two nearest of the first k candidates, the nearer first
\* (f64 comparisons).
TwoNearestOfPrefix(pair, k) ==
    /\ pair[1].coord \in 1..k /\ pair[2].coord \in 1..k
    /\ pair[1].coord # pair[2].coord
    /\ pair[1].dist = dist(pair[1].coord) /\ pair[2].dist = dist(pair[2].coord)
    /\ le(pair[1].dist, pair[2].dist)
    /\ \A c \in (1..k) \ {pair[1].coord, pair[2].coord} : le(pair[2].dist, dist(c))

\* C8 as stated: after k >= 2 candidates are consumed, the pair carried by the
\* fold is the two nearest of the prefix of length k, with d1.dist <= d2.dist.
C8_Original ==
    pc = "fold" => TwoNearestOfPrefix(acc, pos)

\* C8 amended: after k >= 2 candidates are consumed, none of them at distance
\* NaN, the pair carried by the fold is the two nearest of the prefix of
\* length k, with d1.dist <= d2.dist.
C8_FoldInvariantUnlessNaN ==
    (pc = "fold" /\ NoNaN(pos)) => (pos >= 2 /\ TwoNearestOfPrefix(acc, pos))

\* C8 witness: the fold has consumed a third candidate that displaced both
\* members of the pair, and more candidates remain.
C8_Witness ==
    /\ pc = "fold" /\ pos = 3 /\ n > 3 /\ NoNaN(pos)
    /\ dist(3) < dist(1) /\ dist(1) < dist(2)
    /\ acc[1].coord = 3 /\ acc[2].coord = 1

\* C9: get_neighborhood terminates, and pulls the n candidates once each in
\* iteration order, with one dist call per pulled candidate (n in total, none
\* for an empty iterable), leaving the iterator exhausted.
C9_SingleStreamingPass ==
    /\ [](/\ ncalls = Len(pulled)
          /\ pulled = [i \in 1..pos |-> i]
          /\ pos <= n)
    /\ [](Returned => (exhausted /\ ncalls = n /\ pulled = [i \in 1..n |-> i]))
    /\ <>Returned

\* C9 witness: a returned call over the longest iterable, n dist calls made.
C9_Witness ==
    /\ Returned /\ n = MaxLen /\ ncalls = n /\ exhausted

\* The get_neighborhood value a get_neighbors value corresponds to.
AsNeighborhood(nb) ==
    IF nb[1].some /\ nb[2].some THEN Two(nb[1].val, nb[2].val)
    ELSE IF nb[1].some THEN One(nb[1].val)
    ELSE IF ~nb[2].some THEN None
    ELSE Pending

\* C10: get_neighbors and get_neighborhood select the same candidates with
\* the same distances in the same order, and get_neighbors never returns
\* (None, Some(_)).
C10_ImplementationsAgree ==
    (Returned /\ nb_pc = "done") =>
        /\ ~(~nb_result[1].some /\ nb_result[2].some)
        /\ AsNeighborhood(nb_result) = result

\* C10 witness: both calls have returned Two over at least three candidates
\* with a tie between the second and the third.
C10_Witness ==
    /\ Returned /\ nb_pc = "done" /\ n >= 3
    /\ dist(2) = dist(3) /\ dist(1) # NaN /\ dist(2) # NaN /\ dist(1) > dist(2)
    /\ result.tag = "Two" /\ nb_result[2].some

----------------------------------------------------------------------------
(* Two calls of get_neighborhood over the same candidate set, the second   *)
(* over an iterator that yields the models in another order               *)

\* A result with its references named by model of the candidate set
\* instead of by position in the iteration.
ByModel(r) ==
    IF r.tag = "Two"
    THEN Two(NeighborDist(order[r.n1.coord], r.n1.dist),
             NeighborDist(order[r.n2.coord], r.n2.dist))
    ELSE IF r.tag = "One" THEN One(NeighborDist(order[r.n1.coord], r.n1.dist))
    ELSE r

\* The permutations of 1..k.
Perms(k) == {f \in [1..k -> 1..k] : \A i, j \in 1..k : i # j => f[i] # f[j]}

\* The candidate sets: each listed once, in one fixed first iteration order
\* (every other order is reached by the second call).
CandidateSets == {s \in Iterables : \A i, j \in 1..Len(s) : i < j => s[i] <= s[j]}

PermInit ==
    /\ distq \in CandidateSets
    /\ pc = "call" /\ NhIdle
    /\ nb_pc = "idle" /\ NbIdle
    /\ sm_args = <<Unset, Unset, Unset>> /\ sm_ret = <<Unset, Unset>>
    /\ order = [i \in 1..Len(distq) |-> i] /\ prev = Pending

\* The first call has returned: its value is kept, and get_neighborhood is
\* called again on an iterator yielding the same models in the order sigma.
call_permuted ==
    /\ pc = "done"
    /\ prev = Pending
    /\ \E sigma \in Perms(Len(distq)) :
        /\ distq' = [i \in 1..Len(distq) |-> distq[sigma[i]]]
        /\ order' = [i \in 1..Len(distq) |-> order[sigma[i]]]
    /\ prev' = ByModel(result)
    /\ pc' = "call"
    /\ pos' = 0 /\ exhausted' = FALSE /\ ncalls' = 0 /\ pulled' = <<>>
    /\ first' = Unset /\ second' = Unset /\ acc' = <<Unset, Unset>>
    /\ result' = Pending
    /\ UNCHANGED nbVars /\ UNCHANGED smVars

PermNext ==
    \/ get_neighborhood
    \/ fold_0
    \/ fold_1
    \/ fold_others_2
    \/ fold_step
    \/ fold_return
    \/ call_permuted

PermSpec == PermInit /\ [][PermNext]_vars

\* The candidates have pairwise distinct distances (as values: at most one
\* of them is NaN).
DistinctDistances == \A i, j \in 1..n : i # j => dist(i) # dist(j)

\* The second call, over the permuted iteration, has returned.
ReturnedAgain == Returned /\ prev # Pending

\* C11 as stated: when the candidates have pairwise distinct distances, every
\* permutation of the candidate set yields the same result (same candidates,
\* same slots).
C11_Original ==
    (ReturnedAgain /\ DistinctDistances) => ByModel(result) = prev

\* C11 amended: when the candidates have pairwise distinct distances, none of
\* them NaN, every permutation of the candidate set yields the same result
\* (same candidates, same slots).
C11_OrderIndependentUnlessNaN ==
    (ReturnedAgain /\ DistinctDistances /\ NoNaN(n)) => ByModel(result) = prev

\* C11 witness: three or more candidates at distinct distances iterated in
\* reverse order by the second call, which returned the same Two.
C11_Witness ==
    /\ ReturnedAgain /\ n >= 3 /\ DistinctDistances /\ NoNaN(n)
    /\ \A i \in 1..n : order[i] = n + 1 - i
    /\ result.tag = "Two" /\ result.n1.coord = n /\ result.n2.coord = n - 1
    /\ ByModel(result) = prev

====
